---- MODULE Spec2Model ----
(***************************************************************************)
(* Model of canopy() and its helpers (src/src/canopy.c): the half-hourly   *)
(* two-leaf canopy flux engine of GDAY.                                    *)
(*                                                                         *)
(* Doubles are carried as integers on fixed grids:                         *)
(*   - net assimilation in units of 1E-04 umol m-2 s-1, so that the        *)
(*     threshold 1E-04 of canopy.c:81 is AN_THRESHOLD = 1;                 *)
(*   - temperatures in units of 0.01 degC, so that the tolerance 0.02 of   *)
(*     canopy.c:93 is TLEAF_TOL = 2;                                       *)
(*   - decoupling coefficients on a grid of even numbers, so that the      *)
(*     division by 2.0 of canopy.c:279 is exact as it is in binary         *)
(*     floating point.                                                     *)
(* The collaborators whose code is not part of canopy.c (photosynthesis,   *)
(* Penman wrapper, radiation, water balance, soil water) are modelled by   *)
(* what they write, their numeric results drawn from small sets.           *)
(***************************************************************************)
EXTENDS Integers, Sequences, FiniteSets, TLC

VARIABLES
    pc,            \* position in canopy()
    hod,           \* canopy.c:43  half hour of day (loop variable)
    iter,          \* canopy.c:43  leaf temperature iteration counter
    sunlight_hrs,  \* canopy.c:43,50
    c,             \* control: ps_pathway, water_stress, num_hlf_hrs, hour_idx
    cw,            \* canopy_wk: the canopy workspace
    f,             \* fluxes: the day totals
    m,             \* met: the unpacked half-hourly record
    s,             \* state: soil moisture stress factors, lai
    log            \* history of the day: calls made, what each half hour wrote

vars == <<pc, hod, iter, sunlight_hrs, c, cw, f, m, s, log>>

----------------------------------------------------------------------------
(* Bounds of the model *)

\* longest day modelled (c->num_hlf_hrs is MaxHlfHrs - 2 or MaxHlfHrs)
MaxHlfHrs == 12

\* most half hours of one modelled day in which the sun is up
MaxSunUp == 2

----------------------------------------------------------------------------
(* Program constants *)

itermax == 100

NUM_LEAVES == 2

SUNLIT == 0

SHADED == 1

\* hod == 10 of canopy.c:109
PREDAWN_HOD == 10

\* 1E-04 of canopy.c:81, in units of 1E-04
AN_THRESHOLD == 1

\* 0.02 of canopy.c:93, in units of 0.01
TLEAF_TOL == 2

\* 20.0 of canopy.c:60
PAR_MIN == 20

\* UMOL_TO_MOL * MOL_C_TO_GRAMS_C * SEC_2_HLFHR = 1E-06 * 12 * 1800 = 0.0216:
\* one unit of assimilation (1E-04 umol) is 216 units of 1E-08 gC m-2
AN_TO_GC == 216

\* GRAM_C_2_TONNES_HA = 0.01: one unit of 1E-08 gC m-2 is 10 units of
\* 1E-11 t ha-1
GC_TO_THA == 10

C3 == "C3"

C4 == "C4"

Leaves == {SUNLIT, SHADED}

LeafFields == {"an", "gsc", "trans", "rnet", "apar", "omega"}

Abs(x) == IF x < 0 THEN -x ELSE x

----------------------------------------------------------------------------
(* Inputs *)

\* One half-hourly record as unpack_met_data and calculate_solar_geometry
\* leave it: the sun is up in SunUpRecords only (elevation > 0 and par > 20).
SunDownRecords ==
    { [elevation |-> 0,  par |-> 21, tair |-> 1500, vpd |-> 5,  Ca |-> 400, press |-> 10, tsoil |-> 10],
      [elevation |-> 30, par |-> 20, tair |-> 1500, vpd |-> 5,  Ca |-> 400, press |-> 10, tsoil |-> 10] }

SunUpRecords ==
    { [elevation |-> 30, par |-> 21, tair |-> 2000, vpd |-> 10, Ca |-> 410, press |-> 10, tsoil |-> 10] }

\* what photosynthesis_C3 can return for one leaf: net assimilation (at the
\* threshold, or above it) and stomatal conductance
PsOut == { [an |-> 1, gsc |-> 1], [an |-> 3, gsc |-> 2] }

\* what penman_leaf_wrapper can return for a leaf of net radiation rnet:
\* LE leaves the residual rnet - LE at 0, 4 or 8 (candidate leaf temperature
\* 0.00, 0.01 or 0.02 above air temperature); gh is carried premultiplied by
\* CP * MASS_AIR
PenmanOut(rnet) ==
    { [transpiration |-> 2, LE |-> rnet,     gbc |-> 1, gh |-> 1, gv |-> 2, omega |-> 2],
      [transpiration |-> 4, LE |-> rnet - 4, gbc |-> 1, gh |-> 1, gv |-> 2, omega |-> 4],
      [transpiration |-> 4, LE |-> rnet - 8, gbc |-> 1, gh |-> 1, gv |-> 2, omega |-> 2] }

\* The collaborators' answers are drawn so that a leaf's solve can end
\* (photosynthesis_C3 answering at the threshold, or penman_leaf_wrapper
\* bringing the candidate temperature within tolerance) only after this many
\* temperature updates of that solve; a solve may also never end.
ExitPoints == {0, itermax \div 2}

\* The half hours in which the sun may be up in the days modelled: the MaxSunUp
\* half hours up to the pre-dawn index of canopy.c:109.
SunUpHods == (PREDAWN_HOD - MaxSunUp + 1) .. PREDAWN_HOD

\* what calculate_soil_water_fac can return: <<wtfac_topsoil, wtfac_root>>,
\* in tenths
SoilWaterFacOut == { <<3, 7>>, <<10, 10>> }

Leaf2(sunlit, shaded) == [i \in Leaves |-> IF i = SUNLIT THEN sunlit ELSE shaded]

ZeroLeaf == Leaf2(0, 0)

\* the workspace as a day that ended at night leaves it, and as a day whose
\* last half hour had the sun up leaves it
EntryWorkspaces ==
    { [an_leaf |-> ZeroLeaf, gsc_leaf |-> ZeroLeaf, trans_leaf |-> ZeroLeaf,
       rnet_leaf |-> ZeroLeaf, apar_leaf |-> ZeroLeaf, omega_leaf |-> ZeroLeaf,
       an_canopy |-> 0, gsc_canopy |-> 0, apar_canopy |-> 0,
       trans_canopy |-> 0, omega_canopy |-> 0, rnet_canopy |-> 0,
       elevation |-> 0, leaf_idx |-> 0, tleaf |-> 1500, tleaf_new |-> 1500,
       Cs |-> 400, dleaf |-> 5, N0 |-> 0],
      [an_leaf |-> Leaf2(3, 3), gsc_leaf |-> Leaf2(2, 2), trans_leaf |-> Leaf2(4, 2),
       rnet_leaf |-> Leaf2(14, 6), apar_leaf |-> Leaf2(46, 23), omega_leaf |-> Leaf2(4, 2),
       an_canopy |-> 6, gsc_canopy |-> 4, apar_canopy |-> 69,
       trans_canopy |-> 6, omega_canopy |-> 3, rnet_canopy |-> 20,
       elevation |-> 30, leaf_idx |-> 2, tleaf |-> 2000, tleaf_new |-> 2001,
       Cs |-> 397, dleaf |-> 20, N0 |-> 3] }

\* the day totals as the previous day left them (none on the first day)
EntryFluxes ==
    { [gpp_gCm2 |-> 0, npp_gCm2 |-> 0, gpp |-> 0, npp |-> 0, auto_resp |-> 0,
       apar |-> 0, gs_mol_m2_sec |-> 0, omega |-> 0],
      [gpp_gCm2 |-> 1296, npp_gCm2 |-> 648, gpp |-> 12960, npp |-> 6480,
       auto_resp |-> 6480, apar |-> 69, gs_mol_m2_sec |-> 4, omega |-> 3] }

\* params: leaf_abs and cue in tenths, sla (m2 kg-1), cfracts in tenths
params == [leaf_abs |-> 8, cue |-> 5, sla |-> 5, cfracts |-> 5]

----------------------------------------------------------------------------
(* Pure helpers *)

\* Is the sun up? (canopy.c:60)
SunIsUp(elevation, par) == elevation > 0 /\ par > PAR_MIN

\* apar_leaf[idx] * PAR_2_SW, PAR_2_SW being 1 / 2.3
par_to_sw(apar) == (apar * 10) \div 23

\* the longwave term net_lw_rad * kd * exp(-kd * lai) of calc_leaf_net_rad,
\* which the code computes with pow() and exp(): a table in its place
net_lw_loss(tair, vpd, lai) == IF lai > 0 THEN tair \div 1000 ELSE (tair \div 1000) + 1

calc_leaf_net_rad(tair, vpd, sw_rad, lai) ==
    (params.leaf_abs * sw_rad) \div 10 - net_lw_loss(tair, vpd, lai)

\* 1.0 - exp(-kn * lai), in tenths, kn = 0.3: a table in place of exp()
one_minus_exp_kn(lai) ==
    CASE lai <= 0 -> 0
      [] lai = 1  -> 3
      [] lai = 2  -> 5
      [] OTHER    -> 6

\* N0 of calculate_top_of_canopy_leafn (kn = 0.3, KG_AS_G = 1000)
top_of_canopy_leafn(shootnc, lai) ==
    LET LMA  == (params.cfracts * 100) \div params.sla
        Ntot == shootnc * LMA * lai
    IN  IF lai > 0 THEN (Ntot * 3) \div one_minus_exp_kn(lai) ELSE 0

\* scale_to_canopy with the decoupling coefficients summed, not averaged
scale_to_canopy_omega_sum(w) ==
    [w EXCEPT !.an_canopy    = w.an_leaf[SUNLIT] + w.an_leaf[SHADED],
              !.gsc_canopy   = w.gsc_leaf[SUNLIT] + w.gsc_leaf[SHADED],
              !.apar_canopy  = w.apar_leaf[SUNLIT] + w.apar_leaf[SHADED],
              !.trans_canopy = w.trans_leaf[SUNLIT] + w.trans_leaf[SHADED],
              !.omega_canopy = w.omega_leaf[SUNLIT] + w.omega_leaf[SHADED],
              !.rnet_canopy  = w.rnet_leaf[SUNLIT] + w.rnet_leaf[SHADED]]

\* the six canopy totals of scale_to_canopy from the per-leaf arrays of w
scale_to_canopy(w) ==
    [w EXCEPT !.an_canopy    = w.an_leaf[SUNLIT] + w.an_leaf[SHADED],
              !.gsc_canopy   = w.gsc_leaf[SUNLIT] + w.gsc_leaf[SHADED],
              !.apar_canopy  = w.apar_leaf[SUNLIT] + w.apar_leaf[SHADED],
              !.trans_canopy = w.trans_leaf[SUNLIT] + w.trans_leaf[SHADED],
              !.omega_canopy = (w.omega_leaf[SUNLIT] + w.omega_leaf[SHADED]) \div 2,
              !.rnet_canopy  = w.rnet_leaf[SUNLIT] + w.rnet_leaf[SHADED]]

\* zero_hourly_fluxes forgetting the assimilation array
zero_hourly_fluxes_keeps_an(w) ==
    [w EXCEPT !.gsc_leaf = ZeroLeaf, !.trans_leaf = ZeroLeaf,
              !.rnet_leaf = ZeroLeaf, !.apar_leaf = ZeroLeaf, !.omega_leaf = ZeroLeaf]

zero_hourly_fluxes(w) ==
    [w EXCEPT !.an_leaf = ZeroLeaf, !.gsc_leaf = ZeroLeaf, !.trans_leaf = ZeroLeaf,
              !.rnet_leaf = ZeroLeaf, !.apar_leaf = ZeroLeaf, !.omega_leaf = ZeroLeaf]

\* the reset without the day's APAR
zero_carbon_day_fluxes_keeps_apar(fl) ==
    [fl EXCEPT !.gpp_gCm2 = 0, !.npp_gCm2 = 0, !.gpp = 0, !.npp = 0,
               !.auto_resp = 0]

zero_carbon_day_fluxes(fl) ==
    [fl EXCEPT !.gpp_gCm2 = 0, !.npp_gCm2 = 0, !.gpp = 0, !.npp = 0,
               !.auto_resp = 0, !.apar = 0]

\* zero_water_day_fluxes, of the water balance: zeroes the day's water
\* totals; of the flux accumulator's day totals those that
\* zero_carbon_day_fluxes leaves, the summed stomatal conductance and the
\* summed decoupling coefficient
zero_water_day_fluxes(fl) == [fl EXCEPT !.omega = 0, !.gs_mol_m2_sec = 0]

\* the half hour's gross production assigned, not added
sum_hourly_carbon_fluxes_assigns(w, fl) ==
    LET gpp_gCm2 == w.an_canopy * AN_TO_GC
        npp_gCm2 == (gpp_gCm2 * params.cue) \div 10
    IN  [fl EXCEPT !.gpp_gCm2 = gpp_gCm2,
                   !.npp_gCm2 = npp_gCm2,
                   !.gpp = gpp_gCm2 * GC_TO_THA,
                   !.npp = npp_gCm2 * GC_TO_THA,
                   !.auto_resp = gpp_gCm2 * GC_TO_THA - npp_gCm2 * GC_TO_THA,
                   !.apar = fl.apar + w.apar_canopy,
                   !.gs_mol_m2_sec = fl.gs_mol_m2_sec + w.gsc_canopy]

\* gpp_gCm2 and npp_gCm2 in units of 1E-08 gC m-2; gpp, npp and auto_resp in
\* units of 1E-11 t ha-1
sum_hourly_carbon_fluxes(w, fl) ==
    LET gpp_gCm2 == fl.gpp_gCm2 + w.an_canopy * AN_TO_GC
        npp_gCm2 == (gpp_gCm2 * params.cue) \div 10
    IN  [fl EXCEPT !.gpp_gCm2 = gpp_gCm2,
                   !.npp_gCm2 = npp_gCm2,
                   !.gpp = gpp_gCm2 * GC_TO_THA,
                   !.npp = npp_gCm2 * GC_TO_THA,
                   !.auto_resp = gpp_gCm2 * GC_TO_THA - npp_gCm2 * GC_TO_THA,
                   !.apar = fl.apar + w.apar_canopy,
                   !.gs_mol_m2_sec = fl.gs_mol_m2_sec + w.gsc_canopy]

\* canopy.c:178-179; pm.gh is gh premultiplied by CP * MASS_AIR
tleaf_new(tair, rnet, pm) ==
    LET Tdiff == (rnet - pm.LE) \div pm.gh
    IN  tair + Tdiff \div 4

\* the ceiling tested with > in place of >=
iter_outcome_late(it, tleaf, tleaf_cand) ==
    IF it > itermax THEN "no_convergence"
    ELSE IF Abs(tleaf - tleaf_cand) < TLEAF_TOL THEN "converged"
    ELSE "iterate"

\* canopy.c:90-99: what follows the energy balance step
iter_outcome(it, tleaf, tleaf_cand) ==
    IF it >= itermax THEN "no_convergence"
    ELSE IF Abs(tleaf - tleaf_cand) < TLEAF_TOL THEN "converged"
    ELSE "iterate"

\* the leaf surface seeded with the air temperature only
initialise_leaf_surface_tleaf_only(w, met) ==
    [w EXCEPT !.tleaf = met.tair]

\* canopy.c:299-304
initialise_leaf_surface(w, met) ==
    [w EXCEPT !.tleaf = met.tair, !.dleaf = met.vpd, !.Cs = met.Ca]

----------------------------------------------------------------------------
(* State on entry to canopy() *)

Init ==
    /\ pc = "entry"
    /\ hod = 0
    /\ iter = 0
    /\ sunlight_hrs = 0
    /\ c \in [ps_pathway : {C3, C4}, water_stress : BOOLEAN,
              num_hlf_hrs : {MaxHlfHrs - 2, MaxHlfHrs}, hour_idx : {0}]
    /\ \E e \in {"first", "later"} :
          /\ cw = CHOOSE w \in EntryWorkspaces : (w.leaf_idx = 0) <=> (e = "first")
          /\ f = CHOOSE fl \in EntryFluxes : (fl.gs_mol_m2_sec = 0) <=> (e = "first")
    /\ m = [par |-> 0, tair |-> 1500, vpd |-> 5, Ca |-> 400,
            press |-> 10, tsoil |-> 0]
    /\ s = [wtfac_topsoil |-> 4, wtfac_root |-> 6, psi_s_root |-> 0,
            lai |-> 2, shootnc |-> 1]
    /\ log = [sunup_hods |-> {}, written |-> {}, solve_iters |-> 0,
              n_scale |-> 0, n_sum |-> 0, n_wb |-> 0, n_swp |-> 0, n_swf |-> 0,
              swp_hod |-> -1,
              scaled |-> [hod |-> -1, trans |-> 0, omega |-> 0, rnet |-> 0],
              wb_call |-> [hod |-> -1, trans |-> 0, omega |-> 0, rnet |-> 0,
                           n_scale |-> 0, n_sum |-> 0],
              an_k |-> 0, an_vals |-> {}, conv_sum |-> 0,
              updates |-> 0, hh_start_iter |-> 0, sunlit_end_iter |-> -1,
              ps_calls |-> 0, eb_calls |-> 0, solve_end |-> "none",
              finished |-> {}]

----------------------------------------------------------------------------
(* The steps of canopy(), canopy.c:43-144 *)

\* canopy.c:43-51: the day-start resets
ZeroDay ==
    /\ pc = "entry"
    /\ f' = zero_water_day_fluxes(zero_carbon_day_fluxes(f))
    /\ sunlight_hrs' = 0
    /\ iter' = 0
    /\ hod' = 0
    /\ pc' = "hour_loop"
    /\ UNCHANGED <<c, cw, m, s, log>>

\* the iteration counter zeroed at the start of every half hour
BeginHalfHourResetsIter ==
    /\ pc = "hour_loop"
    /\ hod < c.num_hlf_hrs
    /\ \E rec \in SunDownRecords \cup
                  (IF hod \in SunUpHods THEN SunUpRecords ELSE {}) :
          /\ m' = [m EXCEPT !.par = rec.par, !.tair = rec.tair, !.vpd = rec.vpd,
                            !.Ca = rec.Ca, !.press = rec.press,
                            !.tsoil = m.tsoil + rec.tsoil]
          /\ cw' = [cw EXCEPT !.elevation = rec.elevation]
    /\ iter' = 0
    /\ log' = [log EXCEPT !.written = {}, !.hh_start_iter = 0,
                          !.sunlit_end_iter = -1, !.ps_calls = 0,
                          !.eb_calls = 0, !.solve_end = "none",
                          !.finished = {}]
    /\ pc' = "sun_test"
    /\ UNCHANGED <<hod, sunlight_hrs, c, f, s>>

\* canopy.c:52-57: the loop test, unpack_met_data, calculate_solar_geometry
\* and get_diffuse_frac of one half hour
BeginHalfHour ==
    /\ pc = "hour_loop"
    /\ hod < c.num_hlf_hrs
    /\ \E rec \in SunDownRecords \cup
                  (IF hod \in SunUpHods THEN SunUpRecords ELSE {}) :
          /\ m' = [m EXCEPT !.par = rec.par, !.tair = rec.tair, !.vpd = rec.vpd,
                            !.Ca = rec.Ca, !.press = rec.press,
                            !.tsoil = m.tsoil + rec.tsoil]
          /\ cw' = [cw EXCEPT !.elevation = rec.elevation]
    /\ log' = [log EXCEPT !.written = {}, !.hh_start_iter = iter,
                          !.sunlit_end_iter = -1, !.ps_calls = 0,
                          !.eb_calls = 0, !.solve_end = "none",
                          !.finished = {}]
    /\ pc' = "sun_test"
    /\ UNCHANGED <<hod, iter, sunlight_hrs, c, f, s>>

\* canopy.c:60-65: the sun is up; calculate_absorbed_radiation writes the
\* absorbed PAR of both leaves, calculate_top_of_canopy_leafn writes N0, and
\* the sunlit / shaded loop starts
SunUp ==
    /\ pc = "sun_test"
    /\ SunIsUp(cw.elevation, m.par)
    /\ cw' = [cw EXCEPT !.apar_leaf = Leaf2(2 * m.par + 4, m.par + 2),
                        !.N0 = top_of_canopy_leafn(s.shootnc, s.lai),
                        !.leaf_idx = 0]
    /\ log' = [log EXCEPT !.sunup_hods = @ \cup {hod},
                          !.written = @ \cup {<<"apar", SUNLIT>>, <<"apar", SHADED>>}]
    /\ pc' = "leaf_loop"
    /\ UNCHANGED <<hod, iter, sunlight_hrs, c, f, m, s>>

\* the sun-down branch without the test hod == 10
SunDownPotentialEveryHour ==
    /\ pc = "sun_test"
    /\ ~(cw.elevation > 0 /\ m.par > PAR_MIN)
    /\ cw' = [cw EXCEPT !.an_leaf = ZeroLeaf, !.gsc_leaf = ZeroLeaf,
                        !.trans_leaf = ZeroLeaf, !.rnet_leaf = ZeroLeaf,
                        !.apar_leaf = ZeroLeaf, !.omega_leaf = ZeroLeaf]
    /\ s' = [s EXCEPT !.psi_s_root = -15]
    /\ log' = [log EXCEPT !.written = LeafFields \X Leaves,
                          !.n_swp = @ + 1, !.swp_hod = hod]
    /\ pc' = "scale"
    /\ UNCHANGED <<hod, iter, sunlight_hrs, c, f, m>>

\* canopy.c:102-116: the sun is down; zero the per-leaf arrays and, at
\* hod == 10, calc_soil_water_potential
SunDown ==
    /\ pc = "sun_test"
    /\ ~SunIsUp(cw.elevation, m.par)
    /\ cw' = zero_hourly_fluxes(cw)
    /\ IF hod = PREDAWN_HOD
         THEN /\ s' = [s EXCEPT !.psi_s_root = -15]
              /\ log' = [log EXCEPT !.written = LeafFields \X Leaves,
                                    !.n_swp = @ + 1, !.swp_hod = hod]
         ELSE /\ s' = s
              /\ log' = [log EXCEPT !.written = LeafFields \X Leaves]
    /\ pc' = "scale"
    /\ UNCHANGED <<hod, iter, sunlight_hrs, c, f, m>>

\* the history record of a leaf solve that has ended, by leaving the
\* temperature loop at canopy.c:87 or canopy.c:95
SolveEnded(how) ==
    [log EXCEPT !.solve_end = how,
                !.finished = @ \cup {cw.leaf_idx},
                !.sunlit_end_iter = IF cw.leaf_idx = SUNLIT THEN iter ELSE @]

\* the loop left after the sunlit leaf
LeafLoopSunlitOnly ==
    /\ pc = "leaf_loop"
    /\ IF cw.leaf_idx < SHADED
         THEN /\ cw' = initialise_leaf_surface(cw, m)
              /\ log' = [log EXCEPT !.solve_iters = 0, !.ps_calls = 0,
                                    !.eb_calls = 0, !.solve_end = "none"]
              /\ pc' = "photosynthesis"
         ELSE /\ pc' = "scale"
              /\ UNCHANGED <<cw, log>>
    /\ UNCHANGED <<hod, iter, sunlight_hrs, c, f, m, s>>

\* the loop test with <= in place of <
LeafLoopOneTooMany ==
    /\ pc = "leaf_loop"
    /\ IF cw.leaf_idx <= NUM_LEAVES
         THEN /\ cw' = initialise_leaf_surface(cw, m)
              /\ log' = [log EXCEPT !.solve_iters = 0, !.ps_calls = 0,
                                    !.eb_calls = 0, !.solve_end = "none"]
              /\ pc' = "photosynthesis"
         ELSE /\ pc' = "scale"
              /\ UNCHANGED <<cw, log>>
    /\ UNCHANGED <<hod, iter, sunlight_hrs, c, f, m, s>>

\* canopy.c:65-68: the test of the sunlit / shaded loop; a leaf's solve
\* starts with initialise_leaf_surface
LeafLoop ==
    /\ pc = "leaf_loop"
    /\ IF cw.leaf_idx < NUM_LEAVES
         THEN /\ cw' = initialise_leaf_surface(cw, m)
              /\ log' = [log EXCEPT !.solve_iters = 0, !.ps_calls = 0,
                                    !.eb_calls = 0, !.solve_end = "none"]
              /\ pc' = "photosynthesis"
         ELSE /\ pc' = "scale"
              /\ UNCHANGED <<cw, log>>
    /\ UNCHANGED <<hod, iter, sunlight_hrs, c, f, m, s>>

\* canopy.c:73-74: photosynthesis_C3 writes the leaf's net assimilation and
\* stomatal conductance
PhotosynthesisC3 ==
    /\ pc = "photosynthesis"
    /\ c.ps_pathway = C3
    /\ \E out \in {o \in PsOut :
                   o.an > AN_THRESHOLD \/ log.solve_iters \in ExitPoints} :
          cw' = [cw EXCEPT !.an_leaf[cw.leaf_idx] = out.an,
                           !.gsc_leaf[cw.leaf_idx] = out.gsc]
    /\ log' = [log EXCEPT !.written =
                   @ \cup {<<"an", cw.leaf_idx>>, <<"gsc", cw.leaf_idx>>},
                          !.ps_calls = @ + 1]
    /\ pc' = "an_test"
    /\ UNCHANGED <<hod, iter, sunlight_hrs, c, f, m, s>>

\* the unimplemented pathway reported but not exited on
UnimplementedPathwayNoExit ==
    /\ pc = "photosynthesis"
    /\ c.ps_pathway # C3
    /\ pc' = "an_test"
    /\ UNCHANGED <<hod, iter, sunlight_hrs, c, cw, f, m, s, log>>

\* canopy.c:75-79: any other pathway is fatal
UnimplementedPathway ==
    /\ pc = "photosynthesis"
    /\ c.ps_pathway # C3
    /\ pc' = "fatal_c4"
    /\ UNCHANGED <<hod, iter, sunlight_hrs, c, cw, f, m, s, log>>

\* leaving the temperature loop counted as an iteration
NonPhotosynthesizingCountsIteration ==
    /\ pc = "an_test"
    /\ ~(cw.an_leaf[cw.leaf_idx] > AN_THRESHOLD)
    /\ cw' = [cw EXCEPT !.leaf_idx = @ + 1]
    /\ iter' = iter + 1
    /\ log' = SolveEnded("nonphoto")
    /\ pc' = "leaf_loop"
    /\ UNCHANGED <<hod, sunlight_hrs, c, f, m, s>>

\* canopy.c:81,86-88,101: the leaf does not photosynthesize; leave the
\* temperature loop and go on to the next leaf
NonPhotosynthesizing ==
    /\ pc = "an_test"
    /\ ~(cw.an_leaf[cw.leaf_idx] > AN_THRESHOLD)
    /\ cw' = [cw EXCEPT !.leaf_idx = @ + 1]
    /\ log' = SolveEnded("nonphoto")
    /\ pc' = "leaf_loop"
    /\ UNCHANGED <<hod, iter, sunlight_hrs, c, f, m, s>>

\* canopy.c:81-83 and solve_leaf_energy_balance, canopy.c:147-184
SolveLeafEnergyBalance ==
    /\ pc = "an_test"
    /\ cw.an_leaf[cw.leaf_idx] > AN_THRESHOLD
    /\ LET idx    == cw.leaf_idx
           sw_rad == par_to_sw(cw.apar_leaf[idx])
           rnet   == calc_leaf_net_rad(m.tair, m.vpd, sw_rad, s.lai)
       IN  \E pm \in {q \in PenmanOut(rnet) :
                       Abs(cw.tleaf - tleaf_new(m.tair, rnet, q)) < TLEAF_TOL
                         => log.solve_iters \in ExitPoints} :
              cw' = [cw EXCEPT !.rnet_leaf[idx] = rnet,
                                   !.trans_leaf[idx] = pm.transpiration,
                                   !.omega_leaf[idx] = pm.omega,
                                   !.tleaf_new = tleaf_new(m.tair, rnet, pm),
                                   !.Cs = m.Ca - cw.an_leaf[idx] \div pm.gbc,
                                   !.dleaf = (pm.transpiration * m.press) \div pm.gv]
    /\ log' = [log EXCEPT !.written = @ \cup
                   {<<"rnet", cw.leaf_idx>>, <<"trans", cw.leaf_idx>>,
                    <<"omega", cw.leaf_idx>>},
                          !.eb_calls = @ + 1]
    /\ pc' = "iter_test"
    /\ UNCHANGED <<hod, iter, sunlight_hrs, c, f, m, s>>

\* canopy.c:90-92: the iteration ceiling is fatal
NoConvergence ==
    /\ pc = "iter_test"
    /\ iter_outcome(iter, cw.tleaf, cw.tleaf_new) = "no_convergence"
    /\ pc' = "fatal_noconv"
    /\ UNCHANGED <<hod, iter, sunlight_hrs, c, cw, f, m, s, log>>

\* canopy.c:93-95,101: the leaf temperature has converged
Converged ==
    /\ pc = "iter_test"
    /\ iter_outcome(iter, cw.tleaf, cw.tleaf_new) = "converged"
    /\ cw' = [cw EXCEPT !.leaf_idx = @ + 1]
    /\ log' = SolveEnded("converged")
    /\ pc' = "leaf_loop"
    /\ UNCHANGED <<hod, iter, sunlight_hrs, c, f, m, s>>

\* canopy.c:97-99: update temperature and do another iteration
NextIteration ==
    /\ pc = "iter_test"
    /\ iter_outcome(iter, cw.tleaf, cw.tleaf_new) = "iterate"
    /\ cw' = [cw EXCEPT !.tleaf = cw.tleaf_new]
    /\ iter' = iter + 1
    /\ log' = [log EXCEPT !.solve_iters = @ + 1, !.updates = @ + 1]
    /\ pc' = "photosynthesis"
    /\ UNCHANGED <<hod, sunlight_hrs, c, f, m, s>>

\* canopy.c:117
ScaleToCanopy ==
    /\ pc = "scale"
    /\ cw' = scale_to_canopy(cw)
    /\ log' = [log EXCEPT !.n_scale = @ + 1,
                          !.scaled = [hod |-> hod, trans |-> cw'.trans_canopy,
                                      omega |-> cw'.omega_canopy,
                                      rnet |-> cw'.rnet_canopy]]
    /\ pc' = "sum"
    /\ UNCHANGED <<hod, iter, sunlight_hrs, c, f, m, s>>

\* what one half hour with canopy assimilation a adds to a day's gross
\* production that stands at zero
HalfHourConversion(a) ==
    sum_hourly_carbon_fluxes([an_canopy |-> a, apar_canopy |-> 0, gsc_canopy |-> 0],
                             zero_carbon_day_fluxes(CHOOSE fl \in EntryFluxes : TRUE)).gpp_gCm2

\* canopy.c:118
SumHourlyCarbonFluxes ==
    /\ pc = "sum"
    /\ f' = sum_hourly_carbon_fluxes(cw, f)
    /\ log' = [log EXCEPT !.n_sum = @ + 1,
                          !.conv_sum = @ + HalfHourConversion(cw.an_canopy),
                          !.an_k = IF cw.an_canopy # 0 THEN @ + 1 ELSE @,
                          !.an_vals = IF cw.an_canopy # 0
                                        THEN @ \cup {cw.an_canopy} ELSE @]
    /\ pc' = "water_balance"
    /\ UNCHANGED <<hod, iter, sunlight_hrs, c, cw, m, s>>

\* the water balance handed the sunlit leaf's values, not the canopy's
WaterBalanceLeafValues ==
    /\ pc = "water_balance"
    /\ f' = [f EXCEPT !.omega = @ + cw.omega_leaf[SUNLIT]]
    /\ log' = [log EXCEPT !.n_wb = @ + 1,
                          !.wb_call = [hod |-> hod, trans |-> cw.trans_leaf[SUNLIT],
                                       omega |-> cw.omega_leaf[SUNLIT],
                                       rnet |-> cw.rnet_leaf[SUNLIT],
                                       n_scale |-> log.n_scale,
                                       n_sum |-> log.n_sum]]
    /\ c' = [c EXCEPT !.hour_idx = @ + 1]
    /\ sunlight_hrs' = sunlight_hrs + 1
    /\ hod' = hod + 1
    /\ pc' = "hour_loop"
    /\ UNCHANGED <<iter, cw, m, s>>

\* canopy.c:119-124: calculate_water_balance, which adds the half hour's
\* decoupling coefficient to the day's, and the end of the loop body.  The
\* argument `dummy`, which canopy() never sets, is not carried.
WaterBalance ==
    /\ pc = "water_balance"
    /\ f' = [f EXCEPT !.omega = @ + cw.omega_canopy]
    /\ log' = [log EXCEPT !.n_wb = @ + 1,
                          !.wb_call = [hod |-> hod, trans |-> cw.trans_canopy,
                                       omega |-> cw.omega_canopy,
                                       rnet |-> cw.rnet_canopy,
                                       n_scale |-> log.n_scale,
                                       n_sum |-> log.n_sum]]
    /\ c' = [c EXCEPT !.hour_idx = @ + 1]
    /\ sunlight_hrs' = sunlight_hrs + 1
    /\ hod' = hod + 1
    /\ pc' = "hour_loop"
    /\ UNCHANGED <<iter, cw, m, s>>

\* a double divided by a count: not finite when the count is 0
NotFinite == -1

Average(total, n) == IF n = 0 THEN NotFinite ELSE total \div n

\* the day's end with the water-stress test inverted
DayEndInverted ==
    /\ pc = "hour_loop"
    /\ ~(hod < c.num_hlf_hrs)
    /\ f' = [f EXCEPT !.omega = Average(f.omega, sunlight_hrs)]
    /\ m' = [m EXCEPT !.tsoil = Average(m.tsoil, c.num_hlf_hrs)]
    /\ IF ~c.water_stress
         THEN /\ \E fac \in SoilWaterFacOut :
                    s' = [s EXCEPT !.wtfac_topsoil = fac[1], !.wtfac_root = fac[2]]
              /\ log' = [log EXCEPT !.n_swf = @ + 1]
         ELSE /\ s' = [s EXCEPT !.wtfac_topsoil = 10, !.wtfac_root = 10]
              /\ log' = log
    /\ pc' = "returned"
    /\ UNCHANGED <<hod, iter, sunlight_hrs, c, cw>>

\* canopy.c:52,126-144: the loop is over; the day's averages and the soil
\* moisture stress factors
DayEnd ==
    /\ pc = "hour_loop"
    /\ ~(hod < c.num_hlf_hrs)
    /\ f' = [f EXCEPT !.omega = Average(f.omega, sunlight_hrs)]
    /\ m' = [m EXCEPT !.tsoil = Average(m.tsoil, c.num_hlf_hrs)]
    /\ IF c.water_stress
         THEN /\ \E fac \in SoilWaterFacOut :
                    s' = [s EXCEPT !.wtfac_topsoil = fac[1], !.wtfac_root = fac[2]]
              /\ log' = [log EXCEPT !.n_swf = @ + 1]
         ELSE /\ s' = [s EXCEPT !.wtfac_topsoil = 10, !.wtfac_root = 10]
              /\ log' = log
    /\ pc' = "returned"
    /\ UNCHANGED <<hod, iter, sunlight_hrs, c, cw>>

Next ==
    \/ ZeroDay
    \/ BeginHalfHour
    \/ SunUp
    \/ SunDown
    \/ LeafLoop
    \/ PhotosynthesisC3
    \/ UnimplementedPathway
    \/ NonPhotosynthesizing
    \/ SolveLeafEnergyBalance
    \/ NoConvergence
    \/ Converged
    \/ NextIteration
    \/ ScaleToCanopy
    \/ SumHourlyCarbonFluxes
    \/ WaterBalance
    \/ DayEnd

Spec == Init /\ [][Next]_vars

----------------------------------------------------------------------------
(* scale_to_canopy on its own: any two leaf-flux vectors *)

LeafVectors == [Leaves -> {-2, 4}]

OmegaVectors == [Leaves -> {2, 4}]

InitScale ==
    /\ pc = "scale"
    /\ hod = 0
    /\ iter = 0
    /\ sunlight_hrs = 0
    /\ c = [ps_pathway |-> C3, water_stress |-> FALSE,
            num_hlf_hrs |-> MaxHlfHrs, hour_idx |-> 0]
    /\ cw \in [an_leaf : LeafVectors, gsc_leaf : LeafVectors, trans_leaf : LeafVectors,
               rnet_leaf : LeafVectors, apar_leaf : LeafVectors, omega_leaf : OmegaVectors,
               an_canopy : {7}, gsc_canopy : {7}, apar_canopy : {7},
               trans_canopy : {7}, omega_canopy : {7}, rnet_canopy : {7},
               elevation : {30}, leaf_idx : {NUM_LEAVES}, tleaf : {2000},
               tleaf_new : {2000}, Cs : {407}, dleaf : {20}, N0 : {0}]
    /\ f = CHOOSE fl \in EntryFluxes : fl.gs_mol_m2_sec = 0
    /\ m = [par |-> 21, tair |-> 2000, vpd |-> 10, Ca |-> 410,
            press |-> 10, tsoil |-> 10]
    /\ s = [wtfac_topsoil |-> 4, wtfac_root |-> 6, psi_s_root |-> 0,
            lai |-> 2, shootnc |-> 1]
    /\ log = [sunup_hods |-> {0}, written |-> {}, solve_iters |-> 0,
              n_scale |-> 0, n_sum |-> 0, n_wb |-> 0, n_swp |-> 0, n_swf |-> 0,
              swp_hod |-> -1,
              scaled |-> [hod |-> -1, trans |-> 0, omega |-> 0, rnet |-> 0],
              wb_call |-> [hod |-> -1, trans |-> 0, omega |-> 0, rnet |-> 0,
                           n_scale |-> 0, n_sum |-> 0],
              an_k |-> 0, an_vals |-> {}, conv_sum |-> 0,
              updates |-> 0, hh_start_iter |-> 0, sunlit_end_iter |-> -1,
              ps_calls |-> 0, eb_calls |-> 0, solve_end |-> "none",
              finished |-> {}]

SpecScale == InitScale /\ [][ScaleToCanopy]_vars

----------------------------------------------------------------------------
(* Properties *)

LeafValue(w, fld, i) ==
    CASE fld = "an"    -> w.an_leaf[i]
      [] fld = "gsc"   -> w.gsc_leaf[i]
      [] fld = "trans" -> w.trans_leaf[i]
      [] fld = "rnet"  -> w.rnet_leaf[i]
      [] fld = "apar"  -> w.apar_leaf[i]
      [] fld = "omega" -> w.omega_leaf[i]

AllLeafZero(w) == \A fld \in LeafFields, i \in Leaves : LeafValue(w, fld, i) = 0

AllCanopyZero(w) ==
    /\ w.an_canopy = 0 /\ w.gsc_canopy = 0 /\ w.apar_canopy = 0
    /\ w.trans_canopy = 0 /\ w.omega_canopy = 0 /\ w.rnet_canopy = 0

\* the half hour being processed has the sun up
SunUpNow == SunIsUp(cw.elevation, m.par)

\* C1 (as claimed): when canopy() returns, the sunlight-hour count that
\* divides the day's omega is the number of half hours of the day in which
\* the sun was up.
C1_SunlightHoursAreSunUpHalfHours ==
    pc = "returned" => sunlight_hrs = Cardinality(log.sunup_hods)

\* C2 (as claimed): after scale_to_canopy, no per-leaf value that went into
\* the canopy totals is a non-zero value left over from an earlier half hour:
\* every per-leaf entry was written in this half hour, or contributes nothing.
C2_NoLeftoverLeafValueContributes ==
    pc \in {"sum", "water_balance"} =>
        \A fld \in LeafFields, i \in Leaves :
            <<fld, i>> \notin log.written => LeafValue(cw, fld, i) = 0

\* C3 (as claimed): a leaf solve whose candidate temperature is within
\* tolerance after fewer than 100 iterations of that solve is never the one
\* that aborts the run.
C3_ConvergingSolveNeverAborts ==
    (pc = "fatal_noconv" /\ log.solve_iters < itermax)
        => ~(Abs(cw.tleaf - cw.tleaf_new) < TLEAF_TOL)

\* C4: the iteration counter never exceeds 100; the fatal non-convergence
\* exit is taken only with the counter at 100, and with the counter at 100
\* and the candidate out of tolerance it is the only step: no further
\* iteration.
C4_IterationCeiling ==
    /\ iter <= itermax
    /\ pc = "fatal_noconv" => iter = itermax
    /\ (pc = "iter_test" /\ iter < itermax) => ~ENABLED NoConvergence
    /\ (pc = "iter_test" /\ iter = itermax
          /\ ~(Abs(cw.tleaf - cw.tleaf_new) < TLEAF_TOL))
        => (ENABLED NoConvergence /\ ~ENABLED NextIteration)

\* a solve that never came within tolerance has failed after 100 updates of
\* its own
C4_Witness ==
    /\ pc = "fatal_noconv"
    /\ log.solve_iters = itermax
    /\ ~(Abs(cw.tleaf - cw.tleaf_new) < TLEAF_TOL)

\* C5 (as claimed): with a pathway other than C3 canopy() never returns and
\* no sum_hourly_carbon_fluxes or water balance call is ever made.
C5_NonC3FatalBeforeAnyAccumulation ==
    c.ps_pathway # C3 => (pc # "returned" /\ log.n_sum = 0 /\ log.n_wb = 0)

\* C5 (amended): with a pathway other than C3, the first photosynthesis call
\* of the day, in its first sun-up half hour, is fatal: no photosynthesis
\* result is ever tested, and that half hour is not scaled, accumulated or
\* passed to the water balance; only the sun-down half hours before it are,
\* which leaves the day's gross production and APAR at 0; canopy() returns
\* only from a day without a sun-up half hour.
C5_NonC3FatalAtFirstSunUpHalfHour ==
    c.ps_pathway # C3 =>
        /\ pc \notin {"an_test", "iter_test", "fatal_noconv"}
        /\ pc = "photosynthesis"
             => (ENABLED UnimplementedPathway /\ ~ENABLED PhotosynthesisC3)
        /\ log.sunup_hods # {} =>
             /\ log.sunup_hods = {hod}
             /\ pc \in {"leaf_loop", "photosynthesis", "fatal_c4"}
             /\ cw.leaf_idx = SUNLIT
             /\ log.n_scale = hod /\ log.n_sum = hod /\ log.n_wb = hod
        /\ pc = "fatal_c4" => log.sunup_hods = {hod}
        /\ pc = "returned" => log.sunup_hods = {}
        /\ pc # "entry" => (f.gpp_gCm2 = 0 /\ f.apar = 0)

\* the fatal exit taken after sun-down half hours were accumulated
C5_Witness ==
    /\ c.ps_pathway # C3
    /\ pc = "fatal_c4"
    /\ log.n_sum > 0
    /\ log.n_wb > 0

\* C6 (as claimed): a completed day of at least 11 half hours has made exactly
\* one soil-water-potential call, at half hour 10, whatever the sun did there.
C6_PotentialOnceWhateverTheSun ==
    (pc = "returned" /\ c.num_hlf_hrs >= PREDAWN_HOD + 1)
        => (log.n_swp = 1 /\ log.swp_hod = PREDAWN_HOD)

\* C6 (amended): the soil-water-potential call is made at most once a day,
\* only at half hour 10 and only with the sun down there; a completed day
\* of at least 11 half hours has made it exactly when the sun was not up at
\* half hour 10, and a shorter day has not made it.
C6_PotentialOnceIffSunDownAtTen ==
    /\ log.n_swp <= 1
    /\ log.n_swp = 1 => (log.swp_hod = PREDAWN_HOD /\ PREDAWN_HOD \notin log.sunup_hods)
    /\ (pc = "returned" /\ c.num_hlf_hrs >= PREDAWN_HOD + 1)
         => (log.n_swp = 1 <=> PREDAWN_HOD \notin log.sunup_hods)
    /\ c.num_hlf_hrs < PREDAWN_HOD + 1 => log.n_swp = 0

\* a completed day with the sun up at half hour 10 and no call made
C6_Witness ==
    /\ pc = "returned"
    /\ c.num_hlf_hrs >= PREDAWN_HOD + 1
    /\ PREDAWN_HOD \in log.sunup_hods
    /\ log.n_swp = 0

\* C7: every completed half hour, sun up or down, has made exactly one water
\* balance call, after exactly one scale_to_canopy and one
\* sum_hourly_carbon_fluxes of that half hour, with the transpiration, omega
\* and net radiation that scale_to_canopy produced in that half hour.
C7_WaterBalanceOncePerHalfHour ==
    /\ log.n_wb = hod
    /\ log.n_scale = hod + (IF pc \in {"sum", "water_balance"} THEN 1 ELSE 0)
    /\ log.n_sum = hod + (IF pc = "water_balance" THEN 1 ELSE 0)
    /\ log.n_wb > 0 =>
         /\ log.wb_call.hod = hod - 1
         /\ log.wb_call.n_scale = hod
         /\ log.wb_call.n_sum = hod
    /\ (log.n_wb > 0 /\ pc \notin {"sum", "water_balance"}) =>
         /\ log.scaled.hod = log.wb_call.hod
         /\ log.wb_call.trans = log.scaled.trans
         /\ log.wb_call.omega = log.scaled.omega
         /\ log.wb_call.rnet = log.scaled.rnet

\* a sun-up half hour and a sun-down half hour both completed, the sun-up
\* one having handed a non-zero transpiration to the water balance
C7_Witness ==
    /\ pc = "hour_loop"
    /\ hod - 1 \in log.sunup_hods
    /\ hod > 1
    /\ hod - 2 \notin log.sunup_hods
    /\ log.n_wb = hod
    /\ log.wb_call.trans > 0
    /\ log.wb_call.rnet > 0

\* C8: on return with water stress disabled both stress factors are 1 and
\* calculate_soil_water_fac was not called; with it enabled the call was made
\* exactly once; the call is made only after all half hours.
C8_StressFactorsAtDayEnd ==
    /\ (pc = "returned" /\ ~c.water_stress) =>
         (s.wtfac_topsoil = 10 /\ s.wtfac_root = 10 /\ log.n_swf = 0)
    /\ (pc = "returned" /\ c.water_stress) => log.n_swf = 1
    /\ log.n_swf > 0 =>
         (pc = "returned" /\ hod = c.num_hlf_hrs /\ log.n_wb = c.num_hlf_hrs)

\* a day returned with water stress disabled and a sun-up half hour in it
C8_Witness ==
    /\ pc = "returned"
    /\ ~c.water_stress
    /\ log.sunup_hods # {}
    /\ s.wtfac_topsoil = 10
    /\ s.wtfac_root = 10

\* C9: scale_to_canopy sets canopy assimilation, conductance, APAR,
\* transpiration and net radiation to sunlit + shaded and canopy omega to
\* half of sunlit + shaded, and leaves the per-leaf arrays as they were.
C9_ScaleToCanopyIsSumAndMean ==
    [][pc = "scale" =>
        /\ cw'.an_canopy = cw.an_leaf[SUNLIT] + cw.an_leaf[SHADED]
        /\ cw'.gsc_canopy = cw.gsc_leaf[SUNLIT] + cw.gsc_leaf[SHADED]
        /\ cw'.apar_canopy = cw.apar_leaf[SUNLIT] + cw.apar_leaf[SHADED]
        /\ cw'.trans_canopy = cw.trans_leaf[SUNLIT] + cw.trans_leaf[SHADED]
        /\ cw'.rnet_canopy = cw.rnet_leaf[SUNLIT] + cw.rnet_leaf[SHADED]
        /\ 2 * cw'.omega_canopy = cw.omega_leaf[SUNLIT] + cw.omega_leaf[SHADED]
        /\ \A fld \in LeafFields, i \in Leaves :
              LeafValue(cw', fld, i) = LeafValue(cw, fld, i)]_vars

\* two unequal leaf vectors scaled
C9_Witness ==
    /\ pc = "sum"
    /\ cw.an_leaf[SUNLIT] = -2 /\ cw.an_leaf[SHADED] = 4 /\ cw.an_canopy = 2
    /\ cw.trans_leaf[SUNLIT] = 4 /\ cw.trans_leaf[SHADED] = 4 /\ cw.trans_canopy = 8
    /\ cw.omega_leaf[SUNLIT] = 2 /\ cw.omega_leaf[SHADED] = 4 /\ cw.omega_canopy = 3

\* C10: in a half hour with the sun not up the sun-down branch leaves all six
\* per-leaf arrays zero for both leaves, scale_to_canopy then leaves all six
\* canopy totals zero, and the accumulation leaves the day's gross production
\* and APAR as they were; after the day-start reset gross production changes
\* only in the accumulation of a sun-up half hour.
C10_SunDownHalfHourAddsNothing ==
    [][/\ (pc = "sun_test" /\ ~SunUpNow) => AllLeafZero(cw')
       /\ (pc = "scale" /\ ~SunUpNow) => (AllLeafZero(cw) /\ AllCanopyZero(cw'))
       /\ (pc = "sum" /\ ~SunUpNow) =>
              (f'.gpp_gCm2 = f.gpp_gCm2 /\ f'.apar = f.apar)
       /\ f'.gpp_gCm2 # f.gpp_gCm2 =>
              (pc = "entry" \/ (pc = "sum" /\ SunUpNow))]_vars

\* a sun-down half hour accumulated after a sun-up one: the canopy totals are
\* zero and the day's gross production is what the sun-up half hour left
C10_Witness ==
    /\ pc = "water_balance"
    /\ ~SunUpNow
    /\ log.sunup_hods # {}
    /\ AllCanopyZero(cw)
    /\ f.gpp_gCm2 > 0
    /\ f.apar > 0

C12_NonPhotosynthesizingIsNotAnError ==
    /\ (pc = "an_test" /\ ~(cw.an_leaf[cw.leaf_idx] > AN_THRESHOLD)) =>
          (ENABLED NonPhotosynthesizing /\ ~ENABLED SolveLeafEnergyBalance)
    /\ log.solve_end = "nonphoto" =>
          /\ pc \in {"leaf_loop", "scale", "sum", "water_balance",
                     "hour_loop", "returned"}
          /\ log.ps_calls = log.eb_calls + 1
          /\ log.eb_calls = log.solve_iters
          /\ iter = log.updates
          /\ cw.leaf_idx - 1 \in log.finished
          /\ pc = "leaf_loop" => ENABLED LeafLoop

\* a solve left as non-photosynthesizing with the counter at the ceiling
C12_Witness ==
    /\ log.solve_end = "nonphoto"
    /\ pc = "leaf_loop"
    /\ iter = itermax
    /\ log.solve_iters > 0

\* the positions of canopy() inside the solve of one leaf
InLeafSolve == pc \in {"photosynthesis", "an_test", "iter_test",
                       "fatal_c4", "fatal_noconv"}

\* C13 (as claimed): the leaf index of the canopy workspace is SUNLIT or
\* SHADED in every state of a day's run, also after the sunlit / shaded loop
\* of a half hour and in the sun-down half hours that follow a sun-up one.
\* Stated for the states from the day's first sun-up half hour on, where the
\* index is one that this run has set.
C13_LeafIndexAlwaysALeaf ==
    log.sunup_hods # {} => cw.leaf_idx \in {SUNLIT, SHADED}

\* C13 (amended): the leaf index is SUNLIT or SHADED whenever a leaf is being
\* solved and at every write of a per-leaf array; from the day's first
\* sun-up half hour on it is SUNLIT, SHADED or NUM_LEAVES; it is NUM_LEAVES
\* when the sunlit / shaded loop of a sun-up half hour is over, and keeps
\* that value through the sun-down half hours that follow.
C13_LeafIndexALeafInsideTheSolve ==
    /\ log.sunup_hods # {} => cw.leaf_idx \in SUNLIT .. NUM_LEAVES
    /\ InLeafSolve => cw.leaf_idx \in {SUNLIT, SHADED}
    /\ \A w \in log.written : w[2] \in {SUNLIT, SHADED}
    /\ (pc \in {"scale", "sum", "water_balance"} /\ SunUpNow)
          => cw.leaf_idx = NUM_LEAVES
    /\ (log.sunup_hods # {} /\ pc \in {"hour_loop", "sun_test", "returned"})
          => cw.leaf_idx = NUM_LEAVES

\* a sun-down half hour after a sun-up one, the index left at NUM_LEAVES
C13_Witness ==
    /\ pc = "scale"
    /\ ~SunUpNow
    /\ log.sunup_hods # {}
    /\ cw.leaf_idx = NUM_LEAVES

\* C14 (as claimed): the fatal non-convergence exit is taken only without
\* convergence: whenever the candidate temperature of the energy balance
\* step is within tolerance of the current one, the solve ends converged and
\* the run is not aborted, also with the iteration counter at 100.
C14_FatalOnlyWithoutConvergence ==
    /\ (pc = "iter_test" /\ Abs(cw.tleaf - cw.tleaf_new) < TLEAF_TOL)
          => (ENABLED Converged /\ ~ENABLED NoConvergence)
    /\ pc = "fatal_noconv" => ~(Abs(cw.tleaf - cw.tleaf_new) < TLEAF_TOL)

\* C15 (as claimed): within a sun-up half hour the iteration counter is
\* shared between the leaves: the shaded solve starts with the counter where
\* the sunlit solve ended, so the updates the shaded leaf can make before the
\* fatal exit are the ceiling minus those the sunlit leaf made in that half
\* hour.
C15_ShadedBudgetIsCeilingMinusSunlit ==
    (cw.leaf_idx = SHADED /\ InLeafSolve) =>
        /\ iter = log.sunlit_end_iter + log.solve_iters
        /\ pc = "fatal_noconv" =>
              log.solve_iters = itermax - (log.sunlit_end_iter - log.hh_start_iter)

\* C16: the iteration counter is zeroed once per call and never reset between
\* half hours: it is the number of temperature updates made by all leaf
\* solves of all half hours of the day so far, never below its value at the
\* start of the half hour, and an energy balance step evaluated without
\* convergence once 100 updates have accumulated over the day is fatal.
C16_CounterAccumulatesOverTheDay ==
    /\ iter = log.updates
    /\ pc \notin {"entry", "hour_loop"} => iter >= log.hh_start_iter
    /\ (cw.leaf_idx = SUNLIT /\ InLeafSolve)
          => iter = log.hh_start_iter + log.solve_iters
    /\ (pc = "iter_test" /\ log.updates = itermax
          /\ ~(Abs(cw.tleaf - cw.tleaf_new) < TLEAF_TOL))
        => (ENABLED NoConvergence /\ ~ENABLED NextIteration /\ ~ENABLED Converged)
    /\ pc = "fatal_noconv" => log.updates = itermax

\* a run aborted without convergence in a solve that made 50 updates, the 100
\* having accumulated over two half hours
C16_Witness ==
    /\ pc = "fatal_noconv"
    /\ log.hh_start_iter > 0
    /\ log.solve_iters < itermax
    /\ log.updates = itermax
    /\ ~(Abs(cw.tleaf - cw.tleaf_new) < TLEAF_TOL)

\* C17: every leaf solve of a sun-up half hour starts with leaf temperature,
\* leaf-surface CO2 and leaf-surface vapour deficit equal to the half hour's
\* air temperature, ambient CO2 and vapour deficit; the first photosynthesis
\* call of the solve, of the shaded leaf as of the sunlit one, is made with
\* those values and not with what the solve before it left.
C17_SolveStartsSeeded ==
    (pc = "photosynthesis" /\ log.ps_calls = 0) =>
        /\ cw.tleaf = m.tair
        /\ cw.Cs = m.Ca
        /\ cw.dleaf = m.vpd
        /\ log.solve_iters = 0
        /\ SunUpNow

\* the shaded solve about to make its first photosynthesis call, after a
\* sunlit solve that made 50 temperature updates and energy balance steps
C17_Witness ==
    /\ pc = "photosynthesis"
    /\ log.ps_calls = 0
    /\ cw.leaf_idx = SHADED
    /\ log.sunlit_end_iter - log.hh_start_iter > 0
    /\ <<"trans", SUNLIT>> \in log.written
    /\ cw.tleaf = m.tair
    /\ cw.Cs = m.Ca
    /\ cw.dleaf = m.vpd

\* C18: the order of the calls of a day.  In a sun-up half hour the absorbed
\* radiation and the top-of-canopy nitrogen are computed before any
\* photosynthesis call; in each iteration photosynthesis comes before the
\* energy balance step; the sunlit solve has ended before the shaded one
\* starts, and both before scale_to_canopy; scale_to_canopy comes before the
\* accumulation; the day's end comes only after all half hours.
C18_CallOrder ==
    /\ (pc = "leaf_loop" \/ InLeafSolve) =>
          /\ hod \in log.sunup_hods
          /\ {<<"apar", SUNLIT>>, <<"apar", SHADED>>} \subseteq log.written
          /\ cw.apar_leaf = Leaf2(2 * m.par + 4, m.par + 2)
          /\ cw.N0 = top_of_canopy_leafn(s.shootnc, s.lai)
    /\ log.ps_calls > 0 =>
          /\ pc # "sun_test"
          /\ (IF pc \in {"hour_loop", "returned"} THEN hod - 1 ELSE hod)
                \in log.sunup_hods
    /\ pc = "photosynthesis" =>
          (log.ps_calls = log.solve_iters /\ log.eb_calls = log.solve_iters)
    /\ pc = "an_test" =>
          (log.ps_calls = log.solve_iters + 1 /\ log.eb_calls = log.solve_iters)
    /\ pc = "iter_test" =>
          (log.ps_calls = log.solve_iters + 1 /\ log.eb_calls = log.solve_iters + 1)
    /\ (InLeafSolve /\ cw.leaf_idx = SUNLIT) => log.finished = {}
    /\ (InLeafSolve /\ cw.leaf_idx = SHADED) => log.finished = {SUNLIT}
    /\ (pc \in {"scale", "sum", "water_balance"} /\ SunUpNow)
          => log.finished = {SUNLIT, SHADED}
    /\ pc = "scale" => (log.n_scale = hod /\ log.n_sum = hod)
    /\ pc = "sum" => (log.n_scale = hod + 1 /\ log.n_sum = hod)
    /\ pc = "water_balance" => (log.n_scale = hod + 1 /\ log.n_sum = hod + 1)
    /\ (pc = "returned" \/ ENABLED DayEnd) =>
          /\ hod = c.num_hlf_hrs
          /\ log.n_scale = c.num_hlf_hrs
          /\ log.n_sum = c.num_hlf_hrs
          /\ log.n_wb = c.num_hlf_hrs
    /\ pc # "returned" => log.n_swf = 0

\* a day returned whose last half hour had the sun up and both leaves solved
C18_Witness ==
    /\ pc = "returned"
    /\ hod - 1 \in log.sunup_hods
    /\ log.finished = {SUNLIT, SHADED}
    /\ log.n_sum = c.num_hlf_hrs
    /\ f.gpp_gCm2 > 0

\* C19 (as claimed): on a day without a sun-up half hour the sunlight-hour
\* count by which the day's summed omega is divided at the day's end is 0.
C19_SunlessDayDividesByZero ==
    ((pc = "returned" \/ ENABLED DayEnd) /\ log.sunup_hods = {})
        => sunlight_hrs = 0

\* the day totals that sum_hourly_carbon_fluxes adds to or overwrites
CarbonDayTotals(fl) ==
    <<fl.gpp_gCm2, fl.npp_gCm2, fl.gpp, fl.npp, fl.auto_resp, fl.apar,
      fl.gs_mol_m2_sec>>

====
